---- MODULE Spec2Model ----
(***************************************************************************)
(* Model of the authenticated-session manager of desertbit/wego            *)
(* (client.go): NewClient and its blocking first login, the background     *)
(* connectionRoutine with its three-way select, loginUntilSuccess, and     *)
(* the two-phase token() handoff over authChan.                            *)
(*                                                                         *)
(* Go channel semantics are modelled as the runtime implements them: a     *)
(* goroutine that executes a select with several ready cases picks any of  *)
(* them; with no ready case it parks, and the first event on one of its    *)
(* channels (a close, a send, a receive) wakes it committed to that case.  *)
(* Time is kept as remaining durations (seconds) that Tick counts down.    *)
(***************************************************************************)
EXTENDS Integers, Sequences, FiniteSets, TLC

\* ---------------------------------------------------------------- bounds
NumCallers == 2
MaxLogins == 2
MaxRequested == 0
MaxInterval == 2
MaxCloses == 2

\* ------------------------------------------------------ program constants
SafetyMargin == 5
MinInterval == 1
\* (mutant) token() makes its reply slot unbuffered: make(chan string).
SlotCap_Unbuffered == Len(<< >>)
\* make(chan string, 1)
SlotCap == 1

\* ------------------------------------------------------------ input sets
Callers == 1..NumCallers
\* Token lifetime (seconds) a well-formed login response carries.
TTLs == {10}
\* Requested Options.TimeBetweenLoginAttemps, in seconds.
Requested == 0..MaxRequested
\* The same, over negative, zero and larger values.
AllRequested == (0 - MaxInterval)..MaxInterval

NewP == "NewClient"
RouP == "connectionRoutine"
Procs == {NewP, RouP}

\* A LoginResponse; the zero value is what Go leaves in an unset struct.
\* TokenExpires is the time left until the expiry instant (0: not in the
\* future, which is also what the zero time.Time is).
ZeroResp == [ID |-> 0, Token |-> 0, TokenExpires |-> 0]

VARIABLES
    closing,        \* the closer's closingChan is closed
    ctxDone,        \* ctxDone[p]: the context p got from c.Context() is done
    pc,             \* pc[p]: position of NewClient / connectionRoutine
    sleepLeft,      \* sleepLeft[p]: time left of time.Sleep in loginUntilSuccess
    resp,           \* resp[p]: loginUntilSuccess's LoginResponse
    timeBetween,    \* c.opts.TimeBetweenLoginAttemps
    nlogins,        \* number of login calls the server has answered with a token
    mxUserID,       \* c.mxUserID
    newResult,      \* what NewClient returned: "pending", "client", "err"
    token,          \* connectionRoutine's token
    tokenExpires,   \* connectionRoutine's tokenExpires, as time left
    expires,        \* the renewal timer: [armed, left, C]
    expOf,          \* history: the login whose response tokenExpires was taken from
    timerOf,        \* history: the login whose expiry the timer was last set from
    rslot,          \* the caller whose tokenChan the routine received from authChan (0: none)
    cpc,            \* cpc[c]: position of caller c inside token()
    cctx,           \* cctx[c]: caller c's context is done
    tokenChan,      \* tokenChan[c]: the reply slot of caller c's token() call
    ctok,           \* ctok[c]: token returned by token()
    cerr,           \* cerr[c]: error returned by token()
    nstarted,       \* number of times connectionRoutine was started
    requested,      \* opts.TimeBetweenLoginAttemps as passed to NewClient
    ncloses,        \* number of times Close was invoked on the client
    api,            \* the last REST call made through the client and its outcome
    cacc,           \* history: routine's token when it accepted c's slot
    cseen,          \* history: values of the routine's token during c's call
    malformed,      \* history: some login response carried a tokenExpires that
                    \* does not parse
    cphase          \* history: when c's call was invoked the routine was inside
                    \* loginUntilSuccess ("renewing"), or the timer had fired but
                    \* the routine had not taken it yet ("due"), or neither, and
                    \* the timer fired later during the call ("disturbed") or
                    \* has not fired so far ("quiet")
vars == <<closing, ctxDone, pc, sleepLeft, resp, timeBetween, nlogins, mxUserID,
          newResult, token, tokenExpires, expires, rslot, cpc, cctx, tokenChan,
          ctok, cerr, nstarted, requested, ncloses, api, malformed, cacc, cseen,
          cphase, expOf, timerOf>>

hist == <<malformed, cacc, cseen, cphase>>
callerVars == <<cpc, cctx, tokenChan, ctok, cerr>>
auxVars == <<requested, ncloses, api>>
sessionVars == <<token, tokenExpires, expires, rslot, expOf, timerOf>>

Dec(n) == IF n > 0 THEN n - 1 ELSE 0

\* (mutant) the requested interval is used as it is.
EffectiveInterval_NoFloor(req) == req

\* NewClient lines 80-82: the retry interval floor.
EffectiveInterval(req) == IF req < MinInterval THEN MinInterval ELSE req

\* (mutant) the timer is set to the expiry itself, without the margin.
TimerDuration_NoMargin(expIn) == expIn

\* time.Until(tokenExpires) - 5*time.Second, clipped at 0 (a timer with a
\* non-positive duration fires at once).
TimerDuration(expIn) == IF expIn > SafetyMargin THEN expIn - SafetyMargin ELSE 0

\* A renewal is in flight: the timer has fired or the routine is inside
\* loginUntilSuccess.
LusPcs == {"call", "inflight", "sleep", "store", "ret_ok", "ret_err"}
RenewalInFlight == expires.C \/ pc[RouP] \in LusPcs

\* A Go error value: its message and the sentinel errors that errors.Is
\* finds in its chain. NilErr is the nil error.
\* The login a response belongs to, named by the token it issued.
LoginOf(r) == r.Token

NilErr == [msg |-> "nil", is |-> {}]

\* No REST call has been made yet.
NoCall == [op |-> "none", tokErr |-> "none", status |-> 0, body |-> "none",
           auth |-> FALSE, err |-> NilErr]

\* NewClient lines 66-82: the options are copied and the interval floored.
InitOptions(req) ==
    /\ requested = req
    /\ timeBetween = EffectiveInterval(req)

InitState ==
    /\ closing = FALSE
    /\ ctxDone = [p \in Procs |-> FALSE]
    /\ pc = [p \in Procs |-> IF p = NewP THEN "call" ELSE "none"]
    /\ sleepLeft = [p \in Procs |-> 0]
    /\ resp = [p \in Procs |-> ZeroResp]
    /\ nlogins = 0
    /\ mxUserID = 0
    /\ newResult = "pending"
    /\ token = 0
    /\ tokenExpires = 0
    /\ expires = [armed |-> FALSE, left |-> 0, C |-> FALSE]
    /\ expOf = 0
    /\ timerOf = 0
    /\ rslot = 0
    /\ cpc = [c \in Callers |-> "idle"]
    /\ cctx = [c \in Callers |-> FALSE]
    /\ tokenChan = [c \in Callers |-> << >>]
    /\ ctok = [c \in Callers |-> 0]
    /\ cerr = [c \in Callers |-> "none"]
    /\ nstarted = 0
    /\ ncloses = 0
    /\ api = NoCall
    /\ cacc = [c \in Callers |-> 0]
    /\ cseen = [c \in Callers |-> {}]
    /\ malformed = FALSE
    /\ cphase = [c \in Callers |-> "none"]

Init ==
    /\ \E req \in Requested : InitOptions(req)
    /\ InitState

\* ------------------------------------------------------------- histories
InCall(c) == cpc[c] \in {"p1", "s2", "p2"}

\* The routine's token variable takes the value t.
SeenToken(t) == [c \in Callers |-> IF InCall(c) THEN cseen[c] \cup {t} ELSE cseen[c]]
\* A renewal starts (the timer fires).
Disturbed ==
    [c \in Callers |-> IF InCall(c) /\ cphase[c] = "quiet" THEN "disturbed" ELSE cphase[c]]

\* The histories of a call are dropped when it returns an error (they
\* describe the token a call returns); all other histories stay.
Failed(c) == cpc'[c] = "done" /\ cerr'[c] # "none"
HistAfterReturn ==
    /\ cseen' = [c \in Callers |-> IF Failed(c) THEN {} ELSE cseen[c]]
    /\ cphase' = [c \in Callers |-> IF Failed(c) THEN "none" ELSE cphase[c]]
    /\ UNCHANGED <<malformed, cacc>>

\* ---------------------------------------------------- closing the closer
\* close(closingChan) wakes every goroutine parked in a select that has a
\* <-closingChan case, committed to that case.
ClosedCpc == [c \in Callers |-> IF cpc[c] \in {"p1", "p2"} THEN "done" ELSE cpc[c]]
ClosedCerr == [c \in Callers |-> IF cpc[c] \in {"p1", "p2"} THEN "ErrClosed" ELSE cerr[c]]

\* (mutant) closing does not reach the calls parked in token(), as if its
\* selects had no <-c.ClosingChan() case.
Close_NoWake ==
    /\ ~closing
    /\ closing' = TRUE
    /\ ncloses' = ncloses + 1
    /\ pc' = [pc EXCEPT ![RouP] = IF pc[RouP] = "parked" THEN "exit" ELSE @]
    /\ UNCHANGED <<ctxDone, sleepLeft, resp, timeBetween, requested, api, nlogins, mxUserID, newResult,
                   sessionVars, callerVars, nstarted, hist>>

\* Closer.Close(), called by the owner of the client or of Options.Closer.
Close ==
    /\ ~closing
    /\ closing' = TRUE
    /\ ncloses' = ncloses + 1
    /\ pc' = [pc EXCEPT ![RouP] = IF pc[RouP] = "parked" THEN "exit" ELSE @]
    /\ cpc' = ClosedCpc
    /\ cerr' = ClosedCerr
    /\ HistAfterReturn
    /\ UNCHANGED <<ctxDone, sleepLeft, resp, timeBetween, requested, api, nlogins, mxUserID, newResult,
                   sessionVars, cctx, tokenChan, ctok, nstarted>>

\* Close is invoked on a client that is closing already: the closer closes
\* its channel once, a further Close finds it closed and does nothing.
CloseAgain ==
    /\ closing
    /\ ncloses < MaxCloses
    /\ ncloses' = ncloses + 1
    /\ UNCHANGED <<closing, ctxDone, pc, sleepLeft, resp, timeBetween, requested, api,
                   nlogins, mxUserID, newResult, sessionVars, callerVars, nstarted, hist>>

\* The context returned by c.Context() is cancelled once the closer closes.
ContextCancel(p) ==
    /\ closing
    /\ ~ctxDone[p]
    /\ pc[p] \notin {"none", "returned", "dead"}
    /\ ctxDone' = [ctxDone EXCEPT ![p] = TRUE]
    /\ UNCHANGED <<closing, pc, sleepLeft, resp, timeBetween, auxVars, nlogins, mxUserID, newResult,
                   sessionVars, callerVars, nstarted, hist>>

\* ------------------------------------------------------ loginUntilSuccess
\* line 155: c.Login is called.
LoginCall(p) ==
    /\ pc[p] = "call"
    /\ pc' = [pc EXCEPT ![p] = "inflight"]
    /\ UNCHANGED <<closing, ctxDone, sleepLeft, resp, timeBetween, auxVars, nlogins, mxUserID,
                   newResult, sessionVars, callerVars, nstarted, hist>>

\* (mutant) Login itself caches the id of the user it logged in.
LoginOK_StoresID(p, ttl) ==
    /\ pc[p] = "inflight"
    /\ ~ctxDone[p]
    /\ nlogins < MaxLogins
    /\ nlogins' = nlogins + 1
    /\ resp' = [resp EXCEPT ![p] = [ID |-> nlogins + 1, Token |-> nlogins + 1,
                                    TokenExpires |-> ttl]]
    /\ mxUserID' = nlogins + 1
    /\ pc' = [pc EXCEPT ![p] = "store"]
    /\ malformed' = (malformed \/ ttl = 0)
    /\ UNCHANGED <<closing, ctxDone, sleepLeft, timeBetween, auxVars, newResult,
                   sessionVars, callerVars, nstarted, cacc, cseen, cphase>>

\* What Login returns without error: a well-formed response, or one whose
\* tokenExpires does not parse (load's error is dropped at
\* client_cards.go:378, so TokenExpires stays the zero time).
LoginOK(p, ttl) ==
    /\ pc[p] = "inflight"
    /\ ~ctxDone[p]
    /\ nlogins < MaxLogins
    /\ nlogins' = nlogins + 1
    /\ resp' = [resp EXCEPT ![p] = [ID |-> nlogins + 1, Token |-> nlogins + 1,
                                    TokenExpires |-> ttl]]
    /\ pc' = [pc EXCEPT ![p] = "store"]
    /\ malformed' = (malformed \/ ttl = 0)
    /\ UNCHANGED <<closing, ctxDone, sleepLeft, timeBetween, auxVars, mxUserID, newResult,
                   sessionVars, callerVars, nstarted, cacc, cseen, cphase>>

\* (mutant) loginUntilSuccess gives up at the first failed attempt.
LoginFail_GivesUp(p) ==
    /\ pc[p] = "inflight"
    /\ pc' = [pc EXCEPT ![p] = "ret_err"]
    /\ UNCHANGED <<closing, ctxDone, sleepLeft, resp, timeBetween, auxVars, nlogins, mxUserID,
                   newResult, sessionVars, callerVars, nstarted, hist>>

\* (mutant) loginUntilSuccess does not look at its context and retries for
\* ever.
LoginFail_IgnoresCtx(p) ==
    /\ pc[p] = "inflight"
    /\ pc' = [pc EXCEPT ![p] = "sleep"]
    /\ sleepLeft' = [sleepLeft EXCEPT ![p] = timeBetween]
    /\ UNCHANGED <<closing, ctxDone, resp, timeBetween, auxVars, nlogins, mxUserID, newResult,
                   sessionVars, callerVars, nstarted, hist>>

\* (mutant) a failed attempt of the task's login fails the calls that wait on
\* authChan.
LoginFail_FailsCalls(p) ==
    /\ pc[p] = "inflight"
    /\ IF ctxDone[p]
         THEN /\ pc' = [pc EXCEPT ![p] = "ret_err"]
              /\ UNCHANGED sleepLeft
         ELSE /\ pc' = [pc EXCEPT ![p] = "sleep"]
              /\ sleepLeft' = [sleepLeft EXCEPT ![p] = timeBetween]
    /\ cpc' = [c \in Callers |-> IF cpc[c] = "p1" THEN "done" ELSE cpc[c]]
    /\ cerr' = [c \in Callers |-> IF cpc[c] = "p1" THEN "ErrClosed" ELSE cerr[c]]
    /\ HistAfterReturn
    /\ UNCHANGED <<closing, ctxDone, resp, timeBetween, auxVars, nlogins, mxUserID, newResult,
                   sessionVars, cctx, tokenChan, ctok, nstarted>>

\* (mutant) loginUntilSuccess backs off: it sleeps twice the interval.
LoginFail_Backoff(p) ==
    /\ pc[p] = "inflight"
    /\ IF ctxDone[p]
         THEN /\ pc' = [pc EXCEPT ![p] = "ret_err"]
              /\ UNCHANGED sleepLeft
         ELSE /\ pc' = [pc EXCEPT ![p] = "sleep"]
              /\ sleepLeft' = [sleepLeft EXCEPT ![p] = timeBetween + timeBetween]
    /\ UNCHANGED <<closing, ctxDone, resp, timeBetween, auxVars, nlogins, mxUserID, newResult,
                   sessionVars, callerVars, nstarted, hist>>

\* lines 156-165: Login returned an error.
LoginFail(p) ==
    /\ pc[p] = "inflight"
    /\ IF ctxDone[p]
         THEN /\ pc' = [pc EXCEPT ![p] = "ret_err"]
              /\ UNCHANGED sleepLeft
         ELSE /\ pc' = [pc EXCEPT ![p] = "sleep"]
              /\ sleepLeft' = [sleepLeft EXCEPT ![p] = timeBetween]
    /\ UNCHANGED <<closing, ctxDone, resp, timeBetween, auxVars, nlogins, mxUserID, newResult,
                   sessionVars, callerVars, nstarted, hist>>

\* line 163-164: time.Sleep is over, next attempt.
SleepDone(p) ==
    /\ pc[p] = "sleep"
    /\ sleepLeft[p] = 0
    /\ pc' = [pc EXCEPT ![p] = "call"]
    /\ UNCHANGED <<closing, ctxDone, sleepLeft, resp, timeBetween, auxVars, nlogins, mxUserID,
                   newResult, sessionVars, callerVars, nstarted, hist>>

\* (mutant) loginUntilSuccess does not save the user's id.
SaveUserID_Skips(p) ==
    /\ pc[p] = "store"
    /\ pc' = [pc EXCEPT ![p] = "ret_ok"]
    /\ UNCHANGED <<closing, ctxDone, sleepLeft, resp, timeBetween, auxVars, nlogins, mxUserID,
                   newResult, sessionVars, callerVars, nstarted, hist>>

\* lines 167-175: the user's id is saved under the mutex.
SaveUserID(p) ==
    /\ pc[p] = "store"
    /\ mxUserID' = resp[p].ID
    /\ pc' = [pc EXCEPT ![p] = "ret_ok"]
    /\ UNCHANGED <<closing, ctxDone, sleepLeft, resp, timeBetween, auxVars, nlogins, newResult,
                   sessionVars, callerVars, nstarted, hist>>

\* --------------------------------------------------------------- NewClient
\* (mutant) NewClient starts the routine twice.
NewClientOK_Twice ==
    /\ pc[NewP] = "ret_ok"
    /\ token' = resp[NewP].Token
    /\ tokenExpires' = resp[NewP].TokenExpires
    /\ expOf' = LoginOf(resp[NewP])
    /\ nstarted' = nstarted + 2
    /\ newResult' = "client"
    /\ pc' = [pc EXCEPT ![NewP] = "returned", ![RouP] = "start"]
    /\ resp' = [resp EXCEPT ![NewP] = ZeroResp]
    /\ ctxDone' = [ctxDone EXCEPT ![NewP] = TRUE]
    /\ UNCHANGED <<closing, sleepLeft, timeBetween, auxVars, nlogins, mxUserID, expires, timerOf, rslot,
                   callerVars, hist>>

\* lines 93-100: the first login succeeded, the routine is started.
NewClientOK ==
    /\ pc[NewP] = "ret_ok"
    /\ token' = resp[NewP].Token
    /\ tokenExpires' = resp[NewP].TokenExpires
    /\ expOf' = LoginOf(resp[NewP])
    /\ nstarted' = nstarted + 1
    /\ newResult' = "client"
    /\ pc' = [pc EXCEPT ![NewP] = "returned", ![RouP] = "start"]
    /\ resp' = [resp EXCEPT ![NewP] = ZeroResp]
    /\ ctxDone' = [ctxDone EXCEPT ![NewP] = TRUE]
    /\ UNCHANGED <<closing, sleepLeft, timeBetween, auxVars, nlogins, mxUserID, expires, timerOf, rslot,
                   callerVars, hist>>

\* (mutant) NewClient starts the routine before it looks at the error.
NewClientErr_Starts ==
    /\ pc[NewP] = "ret_err"
    /\ newResult' = "err"
    /\ nstarted' = nstarted + 1
    /\ pc' = [pc EXCEPT ![NewP] = "returned", ![RouP] = "start"]
    /\ UNCHANGED <<closing, ctxDone, sleepLeft, resp, timeBetween, auxVars, nlogins, mxUserID,
                   sessionVars, callerVars, hist>>

\* lines 94-96: loginUntilSuccess was cancelled.
NewClientErr ==
    /\ pc[NewP] = "ret_err"
    /\ newResult' = "err"
    /\ pc' = [pc EXCEPT ![NewP] = "returned"]
    /\ UNCHANGED <<closing, ctxDone, sleepLeft, resp, timeBetween, auxVars, nlogins, mxUserID,
                   sessionVars, callerVars, nstarted, hist>>

\* ------------------------------------------------------- connectionRoutine
\* lines 109-122: the routine's context and the renewal timer are created.
RoutineStart ==
    /\ pc[RouP] = "start"
    /\ expires' = [armed |-> TRUE, left |-> TimerDuration(tokenExpires), C |-> FALSE]
    /\ timerOf' = expOf
    /\ pc' = [pc EXCEPT ![RouP] = "select"]
    /\ UNCHANGED <<closing, ctxDone, sleepLeft, resp, timeBetween, auxVars, nlogins, mxUserID,
                   newResult, token, tokenExpires, expOf, rslot, callerVars, nstarted, hist>>

\* The runtime fires the timer: expires.C becomes readable, and a routine
\* parked in its select is woken into the renewal case.
TimerFire ==
    /\ expires.armed
    /\ expires.left = 0
    /\ IF pc[RouP] = "parked"
         THEN /\ pc' = [pc EXCEPT ![RouP] = "call"]
              /\ expires' = [armed |-> FALSE, left |-> 0, C |-> FALSE]
         ELSE /\ expires' = [armed |-> FALSE, left |-> 0, C |-> TRUE]
              /\ UNCHANGED pc
    /\ cphase' = Disturbed
    /\ UNCHANGED <<malformed, closing, ctxDone, sleepLeft, resp, timeBetween, auxVars, nlogins, mxUserID,
                   newResult, token, tokenExpires, expOf, timerOf, rslot, callerVars, nstarted,
                   cacc, cseen>>

\* line 126-127: the select takes <-closingChan.
RoutineSelectClosing ==
    /\ pc[RouP] = "select"
    /\ closing
    /\ pc' = [pc EXCEPT ![RouP] = "exit"]
    /\ UNCHANGED <<closing, ctxDone, sleepLeft, resp, timeBetween, auxVars, nlogins, mxUserID,
                   newResult, sessionVars, callerVars, nstarted, hist>>

\* line 129-131: the select takes <-expires.C and enters loginUntilSuccess.
RoutineSelectExpired ==
    /\ pc[RouP] = "select"
    /\ expires.C
    /\ expires' = [expires EXCEPT !.C = FALSE]
    /\ pc' = [pc EXCEPT ![RouP] = "call"]
    /\ UNCHANGED <<closing, ctxDone, sleepLeft, resp, timeBetween, auxVars, nlogins, mxUserID,
                   newResult, token, tokenExpires, expOf, timerOf, rslot, callerVars, nstarted, hist>>

\* line 142: the select receives the slot of a caller parked on authChan.
RoutineSelectRecv(c) ==
    /\ pc[RouP] = "select"
    /\ cpc[c] = "p1"
    /\ rslot' = c
    /\ pc' = [pc EXCEPT ![RouP] = "reply"]
    /\ cpc' = [cpc EXCEPT ![c] = "s2"]
    /\ cacc' = [cacc EXCEPT ![c] = token]
    /\ UNCHANGED <<malformed, closing, ctxDone, sleepLeft, resp, timeBetween, auxVars, nlogins, mxUserID,
                   newResult, token, tokenExpires, expOf, expires, timerOf, cctx, tokenChan, ctok, cerr,
                   nstarted, cseen, cphase>>

\* lines 125-145: no case of the select is ready, the routine parks.
RoutinePark ==
    /\ pc[RouP] = "select"
    /\ ~closing
    /\ ~expires.C
    /\ \A c \in Callers : cpc[c] # "p1"
    /\ pc' = [pc EXCEPT ![RouP] = "parked"]
    /\ UNCHANGED <<closing, ctxDone, sleepLeft, resp, timeBetween, auxVars, nlogins, mxUserID,
                   newResult, sessionVars, callerVars, nstarted, hist>>

\* (mutant) the routine keeps handing out the token it was started with.
ReplyValue_First == IF token = 0 THEN 0 ELSE 1

\* (mutant) the routine hands out the token before the current one.
ReplyValue_Stale == IF token > 1 THEN token - 1 ELSE token

\* (mutant) while a fired timer is pending the routine hands out the token
\* it was started with.
ReplyValue_FirstWhileDue == IF expires.C /\ token > 1 THEN 1 ELSE token

\* The value the routine writes into an accepted slot (line 144).
ReplyValue == token

\* (mutant) the routine takes the slot and goes back to its select without
\* writing the token.
RoutineReply_Drops ==
    /\ pc[RouP] = "reply"
    /\ rslot' = 0
    /\ pc' = [pc EXCEPT ![RouP] = "select"]
    /\ UNCHANGED <<closing, ctxDone, sleepLeft, resp, timeBetween, auxVars, nlogins, mxUserID,
                   newResult, token, tokenExpires, expOf, expires, timerOf, callerVars, nstarted, hist>>

\* (mutant) the routine logs in again after every request it has answered.
RoutineReply_ThenLogin ==
    /\ pc[RouP] = "reply"
    /\ IF cpc[rslot] = "p2"
         THEN /\ cpc' = [cpc EXCEPT ![rslot] = "done"]
              /\ ctok' = [ctok EXCEPT ![rslot] = ReplyValue]
              /\ UNCHANGED tokenChan
         ELSE /\ Len(tokenChan[rslot]) < SlotCap
              /\ tokenChan' = [tokenChan EXCEPT ![rslot] = Append(@, ReplyValue)]
              /\ UNCHANGED <<cpc, ctok>>
    /\ rslot' = 0
    /\ pc' = [pc EXCEPT ![RouP] = "call"]
    /\ UNCHANGED <<closing, ctxDone, sleepLeft, resp, timeBetween, auxVars, nlogins, mxUserID,
                   newResult, token, tokenExpires, expOf, expires, timerOf, cctx, cerr, nstarted, hist>>

\* line 144: tokenChan <- token. The send needs room in the slot, or a
\* receiver parked on it (who then gets the value directly).
RoutineReply ==
    /\ pc[RouP] = "reply"
    /\ IF cpc[rslot] = "p2"
         THEN /\ cpc' = [cpc EXCEPT ![rslot] = "done"]
              /\ ctok' = [ctok EXCEPT ![rslot] = ReplyValue]
              /\ UNCHANGED tokenChan
         ELSE /\ Len(tokenChan[rslot]) < SlotCap
              /\ tokenChan' = [tokenChan EXCEPT ![rslot] = Append(@, ReplyValue)]
              /\ UNCHANGED <<cpc, ctok>>
    /\ rslot' = 0
    /\ pc' = [pc EXCEPT ![RouP] = "select"]
    /\ UNCHANGED <<closing, ctxDone, sleepLeft, resp, timeBetween, auxVars, nlogins, mxUserID,
                   newResult, token, tokenExpires, expOf, expires, timerOf, cctx, cerr, nstarted, hist>>

\* (mutant) the renewal restarts the timer but keeps serving the old token.
RoutineRenewed_KeepsToken ==
    /\ pc[RouP] = "ret_ok"
    /\ tokenExpires' = resp[RouP].TokenExpires
    /\ expOf' = LoginOf(resp[RouP])
    /\ expires' = [armed |-> TRUE, left |-> TimerDuration(resp[RouP].TokenExpires),
                   C |-> FALSE]
    /\ timerOf' = LoginOf(resp[RouP])
    /\ resp' = [resp EXCEPT ![RouP] = ZeroResp]
    /\ pc' = [pc EXCEPT ![RouP] = "select"]
    /\ cseen' = SeenToken(resp[RouP].Token)
    /\ UNCHANGED <<malformed, closing, ctxDone, sleepLeft, timeBetween, auxVars, nlogins, mxUserID, newResult,
                   token, rslot, callerVars, nstarted, cacc, cphase>>

\* (mutant) the renewal replaces the token but does not restart the timer.
RoutineRenewed_NoReset ==
    /\ pc[RouP] = "ret_ok"
    /\ token' = resp[RouP].Token
    /\ tokenExpires' = resp[RouP].TokenExpires
    /\ expOf' = LoginOf(resp[RouP])
    /\ resp' = [resp EXCEPT ![RouP] = ZeroResp]
    /\ pc' = [pc EXCEPT ![RouP] = "select"]
    /\ cseen' = SeenToken(resp[RouP].Token)
    /\ UNCHANGED <<malformed, closing, ctxDone, sleepLeft, timeBetween, auxVars, nlogins,
                   mxUserID, newResult, expires, timerOf, rslot, callerVars, nstarted, cacc, cphase>>

\* lines 131, 139-140: loginUntilSuccess returned a new session; the timer is
\* restarted relative to the new expiry.
RoutineRenewed ==
    /\ pc[RouP] = "ret_ok"
    /\ token' = resp[RouP].Token
    /\ tokenExpires' = resp[RouP].TokenExpires
    /\ expOf' = LoginOf(resp[RouP])
    /\ expires' = [armed |-> TRUE, left |-> TimerDuration(resp[RouP].TokenExpires),
                   C |-> FALSE]
    /\ timerOf' = LoginOf(resp[RouP])
    /\ resp' = [resp EXCEPT ![RouP] = ZeroResp]
    /\ pc' = [pc EXCEPT ![RouP] = "select"]
    /\ cseen' = SeenToken(resp[RouP].Token)
    /\ UNCHANGED <<malformed, closing, ctxDone, sleepLeft, timeBetween, auxVars, nlogins, mxUserID, newResult,
                   rslot, callerVars, nstarted, cacc, cphase>>

\* lines 131-137: loginUntilSuccess returned the context's error.
RoutineLoginErr ==
    /\ pc[RouP] = "ret_err"
    /\ token' = 0
    /\ tokenExpires' = 0
    /\ expOf' = 0
    /\ pc' = [pc EXCEPT ![RouP] = "exit"]
    /\ cseen' = SeenToken(0)
    /\ UNCHANGED <<malformed, closing, ctxDone, sleepLeft, resp, timeBetween, auxVars, nlogins, mxUserID,
                   newResult, expires, timerOf, rslot, callerVars, nstarted, cacc, cphase>>

\* lines 109, 112, 122: the deferred calls run: the timer is stopped, the
\* context cancelled and the client closed (CloseAndDone_). The routine's
\* locals are gone with it.
RoutineExit ==
    /\ pc[RouP] = "exit"
    /\ pc' = [pc EXCEPT ![RouP] = "dead"]
    /\ expires' = [armed |-> FALSE, left |-> 0, C |-> FALSE]
    /\ token' = 0
    /\ tokenExpires' = 0
    /\ expOf' = 0
    /\ timerOf' = 0
    /\ ctxDone' = [ctxDone EXCEPT ![RouP] = TRUE]
    /\ closing' = TRUE
    /\ cpc' = IF closing THEN cpc ELSE ClosedCpc
    /\ cerr' = IF closing THEN cerr ELSE ClosedCerr
    /\ HistAfterReturn
    /\ UNCHANGED <<sleepLeft, resp, timeBetween, auxVars, nlogins, mxUserID, newResult, rslot,
                   cctx, tokenChan, ctok, nstarted>>

\* ------------------------------------------------------------------ token()
\* The histories of a call that starts now.
Started(c) ==
    /\ cseen' = [cseen EXCEPT ![c] = {token}]
    /\ cphase' = [cphase EXCEPT ![c] = IF pc[RouP] \in LusPcs THEN "renewing"
                                       ELSE IF expires.C THEN "due" ELSE "quiet"]

\* token() can be called on the client that NewClient returned. (Callers
\* are interchangeable, so they start in the order of their numbers.)
CanInvoke(c) ==
    /\ newResult = "client"
    /\ cpc[c] = "idle"
    /\ \A d \in Callers : d < c => cpc[d] # "idle"

\* lines 189-195: token() is called and its first select takes
\* <-c.ClosingChan().
InvokeClosing(c) ==
    /\ CanInvoke(c)
    /\ closing
    /\ cpc' = [cpc EXCEPT ![c] = "done"]
    /\ cerr' = [cerr EXCEPT ![c] = "ErrClosed"]
    /\ cseen' = cseen /\ cphase' = [cphase EXCEPT ![c] = "none"]
    /\ UNCHANGED <<malformed, closing, ctxDone, pc, sleepLeft, resp, timeBetween, auxVars, nlogins, mxUserID,
                   newResult, sessionVars, cctx, tokenChan, ctok, nstarted, cacc>>

\* lines 189-197: token() is called with a context that is already done and
\* its first select takes <-ctx.Done().
InvokeCtx(c) ==
    /\ CanInvoke(c)
    /\ cctx' = [cctx EXCEPT ![c] = TRUE]
    /\ cpc' = [cpc EXCEPT ![c] = "done"]
    /\ cerr' = [cerr EXCEPT ![c] = "ctxErr"]
    /\ cseen' = cseen /\ cphase' = [cphase EXCEPT ![c] = "none"]
    /\ UNCHANGED <<malformed, closing, ctxDone, pc, sleepLeft, resp, timeBetween, auxVars, nlogins, mxUserID,
                   newResult, sessionVars, tokenChan, ctok, nstarted, cacc>>

\* lines 189-198: token() is called (with a live or a done context) and its
\* first select sends the slot to the routine parked on authChan.
InvokeSend(c, ctxdone) ==
    /\ CanInvoke(c)
    /\ pc[RouP] = "parked"
    /\ cctx' = [cctx EXCEPT ![c] = ctxdone]
    /\ cpc' = [cpc EXCEPT ![c] = "s2"]
    /\ pc' = [pc EXCEPT ![RouP] = "reply"]
    /\ rslot' = c
    /\ cacc' = [cacc EXCEPT ![c] = token]
    /\ Started(c)
    /\ UNCHANGED <<closing, ctxDone, sleepLeft, resp, timeBetween, auxVars, nlogins, mxUserID,
                   newResult, token, tokenExpires, expOf, expires, timerOf, tokenChan, ctok, cerr,
                   nstarted, malformed>>

\* lines 189-199: token() is called and no case of its first select is
\* ready: the caller parks on authChan.
InvokePark(c) ==
    /\ CanInvoke(c)
    /\ ~closing
    /\ pc[RouP] # "parked"
    /\ cpc' = [cpc EXCEPT ![c] = "p1"]
    /\ Started(c)
    /\ UNCHANGED <<malformed, closing, ctxDone, pc, sleepLeft, resp, timeBetween, auxVars, nlogins, mxUserID,
                   newResult, sessionVars, cctx, tokenChan, ctok, cerr, nstarted, cacc>>

\* (mutant) a call parked in a select does not notice that its context is
\* done, as if the selects of token() had no <-ctx.Done() case.
CancelCtx_NoWake(c) ==
    /\ ~cctx[c]
    /\ InCall(c)
    /\ cctx' = [cctx EXCEPT ![c] = TRUE]
    /\ UNCHANGED <<closing, ctxDone, pc, sleepLeft, resp, timeBetween, auxVars, nlogins, mxUserID,
                   newResult, sessionVars, cpc, tokenChan, ctok, cerr, nstarted, hist>>

\* The caller's context is cancelled during the call; a call parked in
\* either select wakes into its <-ctx.Done() case.
CancelCtx(c) ==
    /\ ~cctx[c]
    /\ InCall(c)
    /\ cctx' = [cctx EXCEPT ![c] = TRUE]
    /\ IF cpc[c] \in {"p1", "p2"}
         THEN /\ cpc' = [cpc EXCEPT ![c] = "done"]
              /\ cerr' = [cerr EXCEPT ![c] = "ctxErr"]
         ELSE UNCHANGED <<cpc, cerr>>
    /\ HistAfterReturn
    /\ UNCHANGED <<closing, ctxDone, pc, sleepLeft, resp, timeBetween, auxVars, nlogins, mxUserID,
                   newResult, sessionVars, tokenChan, ctok, nstarted>>

\* lines 202-203: the second select of token() takes <-c.ClosingChan().
CallerSelectClosing(c) ==
    /\ cpc[c] = "s2"
    /\ closing
    /\ cpc' = [cpc EXCEPT ![c] = "done"]
    /\ cerr' = [cerr EXCEPT ![c] = "ErrClosed"]
    /\ HistAfterReturn
    /\ UNCHANGED <<closing, ctxDone, pc, sleepLeft, resp, timeBetween, auxVars, nlogins, mxUserID,
                   newResult, sessionVars, cctx, tokenChan, ctok, nstarted>>

\* (mutant) the second select returns the closed error for a done context.
CallerSelectCtx_ErrClosed(c) ==
    /\ cpc[c] = "s2"
    /\ cctx[c]
    /\ cpc' = [cpc EXCEPT ![c] = "done"]
    /\ cerr' = [cerr EXCEPT ![c] = "ErrClosed"]
    /\ HistAfterReturn
    /\ UNCHANGED <<closing, ctxDone, pc, sleepLeft, resp, timeBetween, auxVars, nlogins, mxUserID,
                   newResult, sessionVars, cctx, tokenChan, ctok, nstarted>>

\* lines 204-205: the second select of token() takes <-ctx.Done().
CallerSelectCtx(c) ==
    /\ cpc[c] = "s2"
    /\ cctx[c]
    /\ cpc' = [cpc EXCEPT ![c] = "done"]
    /\ cerr' = [cerr EXCEPT ![c] = "ctxErr"]
    /\ HistAfterReturn
    /\ UNCHANGED <<closing, ctxDone, pc, sleepLeft, resp, timeBetween, auxVars, nlogins, mxUserID,
                   newResult, sessionVars, cctx, tokenChan, ctok, nstarted>>

\* lines 206-207: the second select reads the token from the slot.
CallerSelectToken(c) ==
    /\ cpc[c] = "s2"
    /\ tokenChan[c] # << >>
    /\ ctok' = [ctok EXCEPT ![c] = Head(tokenChan[c])]
    /\ tokenChan' = [tokenChan EXCEPT ![c] = Tail(@)]
    /\ cpc' = [cpc EXCEPT ![c] = "done"]
    /\ UNCHANGED <<closing, ctxDone, pc, sleepLeft, resp, timeBetween, auxVars, nlogins, mxUserID,
                   newResult, sessionVars, cctx, cerr, nstarted, hist>>

\* lines 201-208: no case of the second select is ready, the caller parks
\* on its slot.
CallerPark(c) ==
    /\ cpc[c] = "s2"
    /\ ~closing
    /\ ~cctx[c]
    /\ tokenChan[c] = << >>
    /\ cpc' = [cpc EXCEPT ![c] = "p2"]
    /\ UNCHANGED <<closing, ctxDone, pc, sleepLeft, resp, timeBetween, auxVars, nlogins, mxUserID,
                   newResult, sessionVars, cctx, tokenChan, ctok, cerr, nstarted, hist>>

\* --------------------------------------------------------------------- time
\* No goroutine has a local step to take: each one is parked in a select,
\* asleep, waiting for the server's answer, or finished.
Quiescent ==
    /\ \A p \in Procs : pc[p] \in {"none", "inflight", "sleep", "parked", "returned", "dead"}
    /\ \A p \in Procs : pc[p] = "sleep" => sleepLeft[p] > 0
    /\ \A p \in Procs : ~(closing /\ ~ctxDone[p] /\ pc[p] \in {"inflight", "sleep", "parked"})
    /\ \A c \in Callers : cpc[c] # "s2"
    /\ ~(expires.armed /\ expires.left = 0)

\* One second passes. Local steps of the goroutines take no measurable time
\* at this granularity, and a due timer fires before the clock moves on; the
\* server's answers, the callers and the owner of the closer take any time.
Tick ==
    /\ Quiescent
    /\ sleepLeft' = [p \in Procs |-> Dec(sleepLeft[p])]
    /\ resp' = [p \in Procs |-> [resp[p] EXCEPT !.TokenExpires = Dec(@)]]
    /\ tokenExpires' = Dec(tokenExpires)
    /\ expires' = [expires EXCEPT !.left = Dec(@)]
    /\ UNCHANGED <<closing, ctxDone, pc, timeBetween, auxVars, nlogins, mxUserID, newResult, token,
                   rslot, callerVars, nstarted, hist, expOf, timerOf>>

Next ==
    \/ Close
    \/ \E p \in Procs : ContextCancel(p)
    \/ \E p \in Procs : LoginCall(p)
    \/ \E p \in Procs : \E ttl \in TTLs \cup {0} : LoginOK(p, ttl)
    \/ \E p \in Procs : LoginFail(p)
    \/ \E p \in Procs : SleepDone(p)
    \/ \E p \in Procs : SaveUserID(p)
    \/ NewClientOK
    \/ NewClientErr
    \/ RoutineStart
    \/ TimerFire
    \/ RoutineSelectClosing
    \/ RoutineSelectExpired
    \/ \E c \in Callers : RoutineSelectRecv(c)
    \/ RoutinePark
    \/ RoutineReply
    \/ RoutineRenewed
    \/ RoutineLoginErr
    \/ RoutineExit
    \/ \E c \in Callers : InvokeClosing(c)
    \/ \E c \in Callers : InvokeCtx(c)
    \/ \E c \in Callers : \E ctxdone \in BOOLEAN : InvokeSend(c, ctxdone)
    \/ \E c \in Callers : InvokePark(c)
    \/ \E c \in Callers : CancelCtx(c)
    \/ \E c \in Callers : CallerSelectClosing(c)
    \/ \E c \in Callers : CallerSelectCtx(c)
    \/ \E c \in Callers : CallerSelectToken(c)
    \/ \E c \in Callers : CallerPark(c)
    \/ Tick

Spec == Init /\ [][Next]_vars

\* ------------------------------------------------------ request builders
\* The Authorization header of a request: absent, or "Bearer " + token.
NoHeader == [scheme |-> "none", token |-> 0]
Bearer(t) == [scheme |-> "Bearer", token |-> t]

Methods == {"GET", "POST", "PUT", "DELETE"}

\* authenticateRequest, for the request whose token() call is caller c's:
\* the error of token() is returned, else the header is set.
authenticateRequest(c) ==
    IF cerr[c] # "none"
      THEN [err |-> cerr[c], auth |-> NoHeader]
      ELSE [err |-> "none", auth |-> Bearer(ctok[c])]

\* newAuthenticated{GET,POST,PUT,DELETE}Request, once the request itself
\* was created: authenticateRequest is called and its error dropped
\* (request.go:26, 58, 78, 90), the named results req, err are returned.
newAuthenticatedRequest(method, c) ==
    [method |-> method, err |-> "none", auth |-> authenticateRequest(c).auth]

\* ------------------------------------------------------------- REST calls
\* fmt.Errorf with the verb %v: the new error carries the text of e, not e
\* itself, so errors.Is finds nothing of e's chain in it.
ErrorfV(msg, e) == [msg |-> msg, is |-> {}]

\* errors.Is(e, target)
errorsIs(e, target) == target \in e.is

ErrNotFound == [msg |-> "not found", is |-> {"ErrNotFound"}]

\* What the server answers: no answer at all (the connection breaks, status
\* 0 here), or a status with a body that is a JSON document, empty, or not
\* JSON.
Statuses == {0, 200, 404, 500}
Bodies == {"json", "empty", "garbage"}
TokenErrs == {"none", "ErrClosed", "ctxErr"}

\* The error of http.Client.Do for a broken connection: a *url.Error that
\* wraps io.EOF.
TransportErr == [msg |-> "EOF", is |-> {"io.EOF"}]

\* json.Unmarshal: empty input is a *json.SyntaxError ("unexpected end of
\* JSON input"), not io.EOF.
jsonUnmarshal(body) ==
    CASE body = "json" -> NilErr
      [] body = "empty" -> [msg |-> "unexpected end of JSON input", is |-> {}]
      [] OTHER -> [msg |-> "invalid character", is |-> {}]

\* parseResponse (request.go:121-133); io.ReadAll returns no error at the
\* end of the body.
parseResponse(body) ==
    LET err == jsonUnmarshal(body)
    IN  IF err # NilErr THEN ErrorfV("failed to unmarshal response", err) ELSE NilErr

\* doSimpleRequest (request.go:99-119) with a non-nil resp.
doSimpleRequest(status, body) ==
    IF status = 0 THEN ErrorfV("failed to send POST request", TransportErr)
    ELSE IF status # 200 THEN [msg |-> "unexpected status code", is |-> {}]
    ELSE LET err == parseResponse(body)
         IN  IF err # NilErr THEN ErrorfV("failed to parse response", err) ELSE NilErr

\* GetBoard (client_boards.go:60-77): the builder's error is always nil,
\* an error of doSimpleRequest that is io.EOF becomes ErrNotFound.
GetBoard(status, body) ==
    LET err == doSimpleRequest(status, body)
    IN  IF err # NilErr /\ errorsIs(err, "io.EOF") THEN ErrNotFound ELSE err

\* GetBoard is called on the client: its token() call ends with tokErr and
\* the server answers with status and body. A request whose context is done
\* gets no answer.
GetBoardCall(tokErr, status, body) ==
    /\ newResult = "client"
    /\ tokErr = "ctxErr" => status = 0
    /\ tokErr = "ErrClosed" => closing
    /\ api' = [op |-> "GetBoard", tokErr |-> tokErr, status |-> status, body |-> body,
               auth |-> (tokErr = "none"), err |-> GetBoard(status, body)]
    /\ UNCHANGED <<closing, ctxDone, pc, sleepLeft, resp, timeBetween, requested, ncloses,
                   nlogins, mxUserID, newResult, sessionVars, callerVars, nstarted, hist>>

\* What the login endpoint answers: as above, or a bad request.
LoginStatuses == {0, 200, 400, 500}
LoginOps == {"Login", "Register"}

\* loginOrRegister (client_cards.go:341-380): the error it returns. The
\* error of r.load is dropped (line 378).
loginOrRegister(status, body) ==
    IF status = 0 THEN ErrorfV("failed to send POST request", TransportErr)
    ELSE IF status = 400
      THEN LET err == parseResponse(body)
           IN  IF err # NilErr
                 THEN ErrorfV("failed to parse response of bad request", err)
                 ELSE [msg |-> "bad request", is |-> {}]
    ELSE IF status # 200 THEN [msg |-> "unexpected status code", is |-> {}]
    ELSE LET err == parseResponse(body)
         IN  IF err # NilErr THEN ErrorfV("failed to parse response", err) ELSE NilErr

\* (mutant) a direct Login that succeeds caches the id of its user.
PublicLogin_StoresID(op, status, body) ==
    /\ newResult = "client"
    /\ api' = [op |-> op, tokErr |-> "none", status |-> status, body |-> body,
               auth |-> FALSE, err |-> loginOrRegister(status, body)]
    /\ mxUserID' = IF loginOrRegister(status, body) = NilErr THEN nlogins + 1 ELSE mxUserID
    /\ UNCHANGED <<closing, ctxDone, pc, sleepLeft, resp, timeBetween, requested, ncloses,
                   nlogins, newResult, sessionVars, callerVars, nstarted, hist>>

\* Login and Register (client_cards.go:310-333), called directly on the
\* client: the request carries no token and the response goes to the caller;
\* no field of the client is written.
PublicLogin(op, status, body) ==
    /\ newResult = "client"
    /\ api' = [op |-> op, tokErr |-> "none", status |-> status, body |-> body,
               auth |-> FALSE, err |-> loginOrRegister(status, body)]
    /\ UNCHANGED <<closing, ctxDone, pc, sleepLeft, resp, timeBetween, requested, ncloses,
                   nlogins, mxUserID, newResult, sessionVars, callerVars, nstarted, hist>>

\* The client and its routine, with Login and Register called directly at
\* any time and with any answer of the server (no token() calls).
DirectNext ==
    \/ Close
    \/ \E p \in Procs : ContextCancel(p)
    \/ \E p \in Procs : LoginCall(p)
    \/ \E p \in Procs : \E ttl \in TTLs \cup {0} : LoginOK(p, ttl)
    \/ \E p \in Procs : LoginFail(p)
    \/ \E p \in Procs : SleepDone(p)
    \/ \E p \in Procs : SaveUserID(p)
    \/ NewClientOK
    \/ NewClientErr
    \/ RoutineStart
    \/ TimerFire
    \/ RoutineSelectClosing
    \/ RoutineSelectExpired
    \/ RoutinePark
    \/ RoutineRenewed
    \/ RoutineLoginErr
    \/ RoutineExit
    \/ Tick
    \/ \E op \in LoginOps : \E status \in LoginStatuses : \E body \in Bodies :
          PublicLogin(op, status, body)

DirectSpec == Init /\ [][DirectNext]_vars

\* The construction of a client with any requested interval, and REST calls
\* on it with any answer of the server.
FnInit ==
    /\ \E req \in AllRequested : InitOptions(req)
    /\ InitState

FnNext ==
    \/ LoginCall(NewP)
    \/ \E ttl \in TTLs \cup {0} : LoginOK(NewP, ttl)
    \/ LoginFail(NewP)
    \/ SleepDone(NewP)
    \/ SaveUserID(NewP)
    \/ NewClientOK
    \/ NewClientErr
    \/ Close
    \/ ContextCancel(NewP)
    \/ Tick
    \/ \E tokErr \in TokenErrs : \E status \in Statuses : \E body \in Bodies :
          GetBoardCall(tokErr, status, body)

FnSpec == FnInit /\ [][FnNext]_vars

\* ----------------------------------------------------------------- fairness
\* The steps of loginUntilSuccess that the goroutine running it takes by
\* itself; the server's answer (LoginOK, LoginFail) always arrives, the http
\* client has a timeout and honours the context.
LoginSteps(p) ==
    \/ LoginCall(p)
    \/ LoginFail(p)
    \/ \E ttl \in TTLs \cup {0} : LoginOK(p, ttl)
    \/ SleepDone(p)
    \/ SaveUserID(p)

NewClientSteps == LoginSteps(NewP) \/ NewClientOK \/ NewClientErr

RoutineSteps ==
    \/ LoginSteps(RouP)
    \/ RoutineStart
    \/ RoutineSelectClosing
    \/ RoutineSelectExpired
    \/ \E c \in Callers : RoutineSelectRecv(c)
    \/ RoutinePark
    \/ RoutineReply
    \/ RoutineRenewed
    \/ RoutineLoginErr
    \/ RoutineExit

CallerSteps(c) ==
    \/ CallerSelectClosing(c)
    \/ CallerSelectCtx(c)
    \/ CallerSelectToken(c)
    \/ CallerPark(c)

\* Every goroutine that can take a step is scheduled, the runtime fires a
\* due timer, the contexts follow the closer, and time passes. Nothing is
\* assumed of the callers of token(), Close and the contexts' owners.
Fairness ==
    /\ WF_vars(NewClientSteps)
    /\ WF_vars(RoutineSteps)
    /\ \A c \in Callers : WF_vars(CallerSteps(c))
    /\ \A p \in Procs : WF_vars(ContextCancel(p))
    /\ WF_vars(TimerFire)
    /\ WF_vars(Tick)

LiveSpec == Init /\ [][Next]_vars /\ Fairness

\* The client with Close invoked any number of times.
ShutdownSpec == Init /\ [][Next \/ CloseAgain]_vars /\ Fairness

\* The transport of the renewal scenario: a login that is tried again and
\* again succeeds in the end (as long as the model's MaxLogins allows).
TransportRecovers == SF_vars(\E ttl \in TTLs : LoginOK(RouP, ttl))

LiveSpecTransport == Init /\ [][Next]_vars /\ Fairness /\ TransportRecovers

\* The transport of any login loop, the first one in NewClient included: a
\* login that is tried again and again succeeds in the end.
LoginRecovers == \A p \in Procs : SF_vars(\E ttl \in TTLs : LoginOK(p, ttl))

RetrySpec == Init /\ [][Next]_vars /\ Fairness /\ LoginRecovers

TypeOK ==
    /\ closing \in BOOLEAN
    /\ nlogins \in 0..MaxLogins
    /\ token \in 0..MaxLogins
    /\ rslot \in Callers \cup {0}
    /\ \A c \in Callers : Len(tokenChan[c]) <= SlotCap

\* GetCurrentUserID (part_001 lines 17-22): the cached id, read under the
\* mutex.
GetCurrentUserID == mxUserID

\* ------------------------------------------------------------------ claims
\* token() returned a token to caller c.
GotToken(c) == cpc[c] = "done" /\ cerr[c] = "none"
\* token() returned an error to caller c.
GotError(c) == cpc[c] = "done" /\ cerr[c] # "none"
\* Caller c's call returns in this step.
Returns(c) == cpc[c] # "done" /\ cpc'[c] = "done"

C2_ReturnedTokenWasCurrent ==
    \A c \in Callers : GotToken(c) => ctok[c] \in cseen[c] /\ ctok[c] \in 1..nlogins

\* C2 witness: a call during which the routine replaced its token has
\* returned a token.
C2_Witness == \E c \in Callers : GotToken(c) /\ Cardinality(cseen[c]) = 2

\* C3 (as claimed): a call whose slot the routine accepted returns the
\* token current at the acceptance, never an error.
C3_AcceptedCallReturnsToken ==
    \A c \in Callers : (cpc[c] = "done" /\ cacc[c] # 0) => (cerr[c] = "none" /\ ctok[c] = cacc[c])

\* C3 (amended): an accepted slot receives exactly one token, the one
\* current at the acceptance; the call returns that token, or else the
\* closed error with the client closing or its context's error with the
\* context done. A call returns a token only after its slot was accepted.
C3_AcceptedSlotGetsTokenOfAcceptance ==
    \A c \in Callers :
        /\ Len(tokenChan[c]) <= 1
        /\ \A i \in 1..Len(tokenChan[c]) : cacc[c] # 0 /\ tokenChan[c][i] = cacc[c]
        /\ GotToken(c) => (cacc[c] # 0 /\ ctok[c] = cacc[c] /\ tokenChan[c] = << >>)
        /\ (GotError(c) /\ cacc[c] # 0) =>
              \/ cerr[c] = "ErrClosed" /\ closing
              \/ cerr[c] = "ctxErr" /\ cctx[c]
        /\ (cacc[c] # 0 /\ cpc[c] \in {"s2", "p2"} /\ tokenChan[c] = << >>) => rslot = c

\* C3 witness: an accepted call returned an error and its slot holds the
\* token of the acceptance, which nobody will read.
C3_Witness ==
    \E c \in Callers : GotError(c) /\ cacc[c] = 2 /\ tokenChan[c] = <<2>>

\* C4 (as claimed): every call that returns once the client is closing
\* (it was in flight at the shutdown, or was issued after it) returns the
\* closed error, never a token. (Stated for calls whose own context is
\* live, so that the context's error is not what refutes it.)
C4_AfterCloseOnlyErrClosed ==
    [][\A c \in Callers : (closing' /\ ~cctx'[c] /\ Returns(c)) => cerr'[c] = "ErrClosed"]_vars

\* C4 (amended): once the client is closing no call waits: a call parked
\* in a select returned the closed error at the shutdown, a call issued
\* afterwards fails in its first select, with the closed error or, if its
\* context is done, possibly with the context's error, and no slot is accepted
\* any more; only a call whose slot was accepted before the shutdown can
\* still return its token.
C4_AfterCloseNoCallWaits ==
    [][\A c \in Callers :
          /\ closing' => cpc'[c] \notin {"p1", "p2"}
          /\ (~closing /\ closing' /\ cpc[c] \in {"p1", "p2"}) =>
                (cpc'[c] = "done" /\ cerr'[c] = "ErrClosed")
          /\ closing => cacc'[c] = cacc[c]
          /\ (closing /\ cpc[c] = "idle" /\ cpc'[c] # "idle") =>
                /\ cpc'[c] = "done"
                /\ cerr'[c] \in {"ErrClosed", "ctxErr"}
                /\ cerr'[c] = "ctxErr" => cctx'[c]
          /\ (closing' /\ Returns(c)) =>
                \/ cerr'[c] = "ErrClosed"
                \/ cerr'[c] = "ctxErr" /\ cctx'[c]
                \/ cerr'[c] = "none" /\ cpc[c] = "s2" /\ cacc[c] # 0 /\ ctok'[c] = cacc[c]
      ]_vars

\* C4 witness: the client is closed and its routine gone; one call has
\* returned the closed error though the routine had accepted its slot, and
\* another has returned the closed error without being accepted.
C4_Witness ==
    /\ closing
    /\ pc[RouP] = "dead"
    /\ \E c, d \in Callers :
          /\ GotError(c) /\ cerr[c] = "ErrClosed" /\ cacc[c] # 0
          /\ GotError(d) /\ cerr[d] = "ErrClosed" /\ cacc[d] = 0

\* C6: the routine never blocks on the write into a reply slot: whenever
\* it holds an accepted slot, the slot is empty and was never written (or its
\* caller is parked on it), also when the caller has already given up.
C6_ReplyNeverBlocks ==
    pc[RouP] = "reply" =>
        /\ rslot \in Callers
        /\ Len(tokenChan[rslot]) < SlotCap \/ cpc[rslot] = "p2"
        /\ tokenChan[rslot] = << >>
        /\ ctok[rslot] = 0

\* C6 witness: a caller has abandoned its request, the routine has written
\* the token into the abandoned slot and is back in its select.
C6_Witness ==
    \E c \in Callers :
        /\ GotError(c)
        /\ tokenChan[c] # << >>
        /\ pc[RouP] \in {"select", "parked"}

\* C7: while no Login call has returned without error NewClient has not
\* returned a client; it returns an error only once the closer's context is
\* done, and then no client exists (no routine was started).
C7_NoClientWithoutLogin ==
    /\ nlogins = 0 => newResult \in {"pending", "err"}
    /\ newResult = "err" => (closing /\ ctxDone[NewP] /\ nlogins = 0 /\ pc[RouP] = "none")

\* C7 witness: NewClient has returned the cancellation error.
C7_Witness == newResult = "err" /\ pc[NewP] = "returned"

\* C8: NewClient returns either an error, with no routine started, or a
\* client for which a login succeeded, whose userID is stored and whose
\* routine was started exactly once, with that login's token and expiry.
C8_NeverHalfInitialized ==
    /\ newResult \in {"pending", "err"} => (nstarted = 0 /\ pc[RouP] = "none" /\ token = 0)
    /\ newResult = "client" => (nstarted = 1 /\ nlogins >= 1 /\ mxUserID >= 1 /\ pc[RouP] # "none")
    /\ pc[RouP] = "start" =>
          (token = 1 /\ mxUserID = 1 /\ nlogins = 1 /\ tokenExpires \in TTLs \cup {0})

\* C8 witness: NewClient has returned a client whose routine is starting.
C8_Witness == newResult = "client" /\ pc[RouP] = "start" /\ tokenExpires \in TTLs

\* C10 (as claimed), with the transport of the scenario (every response
\* well formed, expiry 10 s ahead): a call made before the renewal point
\* returns the first token, and no call made after the renewal point has
\* passed (the timer has fired) returns the token that was current when it
\* was made.
C10_NoOldTokenAfterRenewalPoint ==
    \A c \in Callers : (GotToken(c) /\ ~malformed) =>
        /\ (cphase[c] = "quiet" /\ cseen[c] = {1}) => ctok[c] = 1
        /\ cphase[c] \in {"due", "renewing"} => \E t \in cseen[c] : t < ctok[c]

\* C10 (amended): a call made before the renewal point, with no renewal
\* during it, returns the first token; a call made once the routine has
\* taken the timer's case (it is inside loginUntilSuccess) returns a newer
\* token than the one current when it was made. A call made after the timer
\* fired but before the routine took it may still get the old token.
C10_NoOldTokenOnceRenewing ==
    \A c \in Callers : GotToken(c) =>
        /\ (cphase[c] = "quiet" /\ cseen[c] = {1}) => ctok[c] = 1
        /\ cphase[c] = "renewing" => \E t \in cseen[c] : t < ctok[c]
        /\ cphase[c] = "due" => ctok[c] \in cseen[c]

\* C10 witness: one call got the first token before the renewal point,
\* another, made during the renewal, got the second.
C10_Witness ==
    \E c, d \in Callers :
        /\ GotToken(c) /\ cphase[c] = "quiet" /\ ctok[c] = 1
        /\ GotToken(d) /\ cphase[d] = "renewing" /\ cseen[d] = {1, 2} /\ ctok[d] = 2

\* C5: no blocking operation blocks for ever once it is cancelled or the
\* client shuts down: a token() call waiting in either select when its
\* context is cancelled or the client closes returns an error in that very
\* step, no call is left parked with its context done or the client
\* closing, every such call returns, and NewClient returns once its closer
\* is closed.
C5_CancelledOrClosedReturns ==
    /\ [][\A c \in Callers :
            (cpc[c] \in {"p1", "p2"} /\ ((~cctx[c] /\ cctx'[c]) \/ (~closing /\ closing')))
               => (cpc'[c] = "done" /\ cerr'[c] \in {"ctxErr", "ErrClosed"})]_vars
    /\ [](\A c \in Callers : (closing \/ cctx[c]) => cpc[c] \notin {"p1", "p2"})
    /\ \A c \in Callers : (InCall(c) /\ (closing \/ cctx[c])) ~> (cpc[c] = "done")
    /\ (closing /\ newResult = "pending") ~> (newResult # "pending")

\* C5 witness: both waiting phases were cut short: one call has returned
\* its context's error after the routine had accepted its slot, another
\* before any acceptance, and the client has been closed since.
C5_Witness ==
    /\ closing
    /\ \E c, d \in Callers :
          /\ GotError(c) /\ cerr[c] = "ctxErr" /\ cacc[c] # 0
          /\ GotError(d) /\ cerr[d] = "ctxErr" /\ cacc[d] = 0

\* The model's transport has no further token to give while the routine is
\* renewing (the bound MaxLogins).
Exhausted == nlogins = MaxLogins /\ pc[RouP] \in LusPcs

\* Caller c's call was issued after the routine had begun the renewal
\* login, or after a renewal had replaced the first token.
IssuedAfterRenewalBegan(c) ==
    \/ cphase[c] = "renewing"
    \/ cseen[c] # {} /\ \A t \in cseen[c] : t >= 2

\* C9: with a transport that succeeds in the end, a call issued after the
\* routine has taken the fired timer returns the new token, and it does
\* return (unless the client closes or the call's context is done); a token
\* returned by a call concurrent with the renewal is the old or the new
\* one, a value the routine's token had during the call.
C9_RenewedTokenIsServed ==
    /\ [](\A c \in Callers : GotToken(c) =>
            /\ cseen[c] \subseteq 0..nlogins
            /\ ctok[c] \in cseen[c] \ {0}
            /\ IssuedAfterRenewalBegan(c) => ctok[c] >= 2)
    /\ \A c \in Callers :
          (InCall(c) /\ IssuedAfterRenewalBegan(c))
             ~> (GotToken(c) \/ closing \/ cctx[c] \/ Exhausted)

\* C9 witness: a call during which the timer fired has returned the old
\* token, and a call issued after the renewal has returned the new one.
C9_Witness ==
    \E c, d \in Callers :
        /\ GotToken(d) /\ cphase[d] = "disturbed" /\ ctok[d] = 1
        /\ GotToken(c) /\ cseen[c] = {2} /\ ctok[c] = 2

\* C11: with logins whose expiry parses and lies in the future, the routine
\* never answers a request with a token whose expiry has passed: whenever
\* it is about to write a reply, its token is a login's token with time left.
C11_RepliedTokenStillValid ==
    (pc[RouP] = "reply" /\ ~malformed) => (token >= 1 /\ tokenExpires > 0)

\* C11 witness: the token has expired while the renewal keeps failing and a
\* request waits on authChan, unanswered.
C11_Witness ==
    /\ ~malformed /\ ~closing
    /\ token = 1 /\ tokenExpires = 0
    /\ pc[RouP] \in LusPcs
    /\ \E c \in Callers : cpc[c] = "p1"

\* C16: a token request never triggers a login: no step of a token() call
\* or of its handling by the routine (any step that changes a caller or the
\* accepted slot) counts a login or moves the routine into a login attempt,
\* and the routine starts an attempt only from the fired timer or from the
\* sleep after a failed attempt.
C16_TokenRequestsNeverLogin ==
    [][/\ (callerVars' # callerVars \/ rslot' # rslot) =>
             /\ nlogins' = nlogins
             /\ pc'[RouP] \in {"call", "inflight"} => pc'[RouP] = pc[RouP]
       /\ (pc'[RouP] = "call" /\ pc[RouP] # "call") =>
             \/ expires.C
             \/ expires.armed /\ expires.left = 0
             \/ pc[RouP] = "sleep"
      ]_vars

\* C16 witness: every caller has been given the token and only the login of
\* NewClient was ever made.
C16_Witness ==
    /\ \A c \in Callers : GotToken(c) /\ ctok[c] = 1
    /\ nlogins = 1
    /\ pc[RouP] = "parked"

\* C17: no failed login ends the routine: it leaves its loop only with the
\* client closing, loginUntilSuccess returns an error to it only with its
\* context done, and while it retries it keeps the token it had.
C17_OnlyShutdownEndsRoutine ==
    /\ pc[RouP] \in {"ret_err", "exit", "dead"} => closing
    /\ pc[RouP] = "ret_err" => ctxDone[RouP]
    /\ pc[RouP] = "sleep" => token >= 1

\* C17 witness: the renewal has failed for so long that the token expired,
\* and the routine still retries.
C17_Witness ==
    /\ ~closing /\ ~malformed
    /\ pc[RouP] = "sleep"
    /\ tokenExpires = 0

C20_NothingServedAfterClose ==
    [][closing => \A c \in Callers :
          /\ cacc'[c] = cacc[c]
          /\ Len(tokenChan'[c]) <= Len(tokenChan[c])]_vars

\* C20 (amended): once the client is closing the routine accepts no slot,
\* also when it was retrying a renewal; the only reply it can still write is
\* the one for the slot it had accepted before the client closed.
C20_NothingAcceptedAfterClose ==
    [][closing =>
          /\ \A c \in Callers : cacc'[c] = cacc[c]
          /\ rslot' # rslot => (rslot' = 0 /\ pc[RouP] = "reply")
          /\ pc'[RouP] = "reply" => pc[RouP] = "reply"
          /\ \A c \in Callers :
                Len(tokenChan'[c]) > Len(tokenChan[c]) => (pc[RouP] = "reply" /\ rslot = c)
      ]_vars

\* C20 witness: the client was closed while the renewal was retrying, and a
\* call that waited for the routine returned the closed error unserved.
C20_Witness ==
    /\ closing
    /\ pc[RouP] = "sleep"
    /\ \E c \in Callers : GotError(c) /\ cerr[c] = "ErrClosed" /\ cacc[c] = 0

\* C14 (as claimed): a request a builder returns without error carries
\* "Bearer " plus the token its token() call obtained, and when token()
\* failed the builder returns an error.
C14_BuildersCarryToken ==
    \A c \in Callers : \A method \in Methods :
        cpc[c] = "done" =>
            LET r == newAuthenticatedRequest(method, c)
            IN  /\ r.err = "none" => (r.auth = Bearer(ctok[c]) /\ ctok[c] >= 1)
                /\ cerr[c] # "none" => r.err # "none"

\* C18 (as claimed): a login attempt whose response is malformed, also one
\* whose tokenExpires does not parse, is a failed attempt: loginUntilSuccess
\* keeps no response of it and sleeps before the next attempt.
C18_MalformedLoginIsRetried ==
    [][\A p \in Procs :
          (pc[p] = "inflight" /\ ~malformed /\ malformed') =>
              (pc'[p] = "sleep" /\ resp'[p] = resp[p])]_vars

\* C12: the effective retry interval is max(requested, 1 s): a requested
\* interval below 1 second gives what exactly 1 second gives, one of 1
\* second or more is used unchanged, and this is the time every sleep
\* between login attempts lasts.
C12_IntervalFloor ==
    /\ [](/\ timeBetween = (IF requested < 1 THEN 1 ELSE requested)
          /\ requested < 1 => timeBetween = EffectiveInterval(1)
          /\ requested >= 1 => timeBetween = requested)
    /\ [][\A p \in Procs :
            (pc[p] # "sleep" /\ pc'[p] = "sleep") =>
                sleepLeft'[p] = (IF requested < 1 THEN 1 ELSE requested)]_vars
    /\ [][requested' = requested /\ timeBetween' = timeBetween]_vars

\* C12 witness: a client requested with a negative interval sleeps its
\* second between two attempts.
C12_Witness ==
    /\ requested < 0
    /\ pc[NewP] = "sleep"
    /\ sleepLeft[NewP] = 1

\* C15 (as claimed): GetBoard returns an error that is ErrNotFound whenever
\* the server answers 200 with an empty body.
C15_EmptyBodyIsNotFound ==
    (api.op = "GetBoard" /\ api.status = 200 /\ api.body = "empty")
        => errorsIs(api.err, "ErrNotFound")

\* C13: shutdown is idempotent and terminating: a Close on a client that
\* is closing already changes nothing but the count of invocations, the
\* client stays closing, the routine's own close on exit is always such a
\* repeated one and wakes nobody, and once the client is closing the routine
\* terminates from wherever it is (or was never started, NewClient having
\* returned the error).
C13_CloseIdempotentRoutineEnds ==
    /\ [][(closing /\ ncloses' # ncloses) =>
            UNCHANGED <<closing, ctxDone, pc, sleepLeft, resp, timeBetween, requested, api,
                        nlogins, mxUserID, newResult, sessionVars, callerVars, nstarted,
                        hist>>]_vars
    /\ [][closing => closing']_vars
    /\ [](pc[RouP] \in {"exit", "dead"} => (closing /\ ncloses >= 1))
    /\ [][(pc[RouP] = "exit" /\ pc'[RouP] = "dead") => UNCHANGED <<callerVars, ncloses>>]_vars
    /\ closing ~> (pc[RouP] = "dead" \/ newResult = "err")

\* C13 witness: Close was invoked twice while the routine slept between two
\* attempts of a renewal.
C13_Witness ==
    /\ ncloses = 2
    /\ pc[RouP] = "sleep"
    /\ sleepLeft[RouP] > 0

\* C21: the routine's token and tokenExpires always come from the same login
\* response (or are both cleared), a timer that the routine may wait on was
\* set from the expiry of the token it serves, and what a call is handed is
\* the token of that one session: the slot of an accepted call is written
\* with the token whose expiry and timer are current.
C21_SessionReplacedWholesale ==
    /\ expOf = token
    /\ pc[RouP] \in {"select", "parked", "reply"} =>
          /\ token >= 1
          /\ timerOf = token
    /\ pc[RouP] = "reply" => (ReplyValue = expOf /\ ReplyValue = timerOf)
    /\ \A c \in Callers : GotToken(c) => ctok[c] = cacc[c]

\* C21 witness: after a renewal the routine waits with the second login's
\* token, expiry and timer, and a call has returned that token.
C21_Witness ==
    /\ pc[RouP] = "parked"
    /\ token = 2 /\ expOf = 2 /\ timerOf = 2
    /\ \E c \in Callers : GotToken(c) /\ ctok[c] = 2

\* A field of the session changes in this step: the token, the login the
\* expiry belongs to, or the cached user id.
SessionWritten == token' # token \/ expOf' # expOf \/ mxUserID' # mxUserID
\* This step is a step of the running background task.
TaskStep == pc[RouP] \notin {"none", "dead"} /\ pc'[RouP] # pc[RouP]
\* This step is a step of NewClient before the task exists.
ConstructionStep == pc[RouP] = "none" /\ pc'[NewP] # pc[NewP]

\* C22 as stated: every change of the token, the user id or the expiry is a
\* step of the background task.
C22_OnlyTaskWritesSession == [][SessionWritten => TaskStep]_vars

\* C22: the session is written by the background task and, before the task
\* exists, by NewClient, which performs the first login in its own goroutine
\* and hands token and expiry to the task it starts. The user id changes only
\* where loginUntilSuccess stores it, token and expiry only where the task
\* takes the result of loginUntilSuccess or ends, or where NewClient starts
\* the task. No step of token() writes any of them: a call moves together
\* with a session change only when the ending task wakes it by closing.
C22_SessionWrittenByTaskOrConstruction ==
    /\ [][SessionWritten => (TaskStep \/ ConstructionStep)]_vars
    /\ [][mxUserID' # mxUserID =>
            \E p \in Procs : /\ pc[p] = "store" /\ pc'[p] = "ret_ok"
                             /\ mxUserID' = resp[p].ID]_vars
    /\ [][(token' # token \/ expOf' # expOf) =>
            \/ pc[RouP] \in {"ret_ok", "ret_err", "exit"} /\ pc'[RouP] # pc[RouP]
            \/ pc[NewP] = "ret_ok" /\ pc'[NewP] = "returned" /\ pc[RouP] = "none"]_vars
    /\ [][(SessionWritten /\ callerVars' # callerVars) =>
            (pc[RouP] = "exit" /\ pc'[RouP] = "dead")]_vars
    /\ [](GetCurrentUserID = mxUserID)

\* C22 witness: the task has written a second session (user id, token and
\* expiry of the second login) while a call was reading.
C22_Witness ==
    /\ pc[RouP] = "select"
    /\ mxUserID = 2 /\ token = 2 /\ expOf = 2
    /\ \E c \in Callers : InCall(c) /\ cseen[c] = {1, 2}

\* Process p is inside loginUntilSuccess and has not got a response.
Trying(p) == pc[p] \in {"call", "inflight", "sleep"}

\* C23: a Login that fails while the context is live is followed by a sleep
\* of exactly the configured interval and then by the next attempt; the
\* interval never changes and nothing but a done context ends the loop
\* without a response. With a transport that succeeds in the end and no
\* shutdown, loginUntilSuccess returns success (as long as the model's
\* MaxLogins has a token left to give).
C23_LoginRetriedUntilSuccess ==
    /\ [][\A p \in Procs : (pc[p] = "inflight" /\ pc'[p] # "inflight") =>
            \/ pc'[p] = "store"
            \/ ctxDone[p] /\ pc'[p] = "ret_err"
            \/ /\ ~ctxDone[p]
               /\ pc'[p] = "sleep"
               /\ sleepLeft'[p] = timeBetween]_vars
    /\ [][\A p \in Procs : (pc[p] = "sleep" /\ pc'[p] # "sleep") =>
            (sleepLeft[p] = 0 /\ pc'[p] = "call")]_vars
    /\ [][timeBetween' = timeBetween]_vars
    /\ [](\A p \in Procs : pc[p] = "sleep" => sleepLeft[p] <= timeBetween)
    /\ \A p \in Procs :
          Trying(p) ~> (pc[p] = "ret_ok" \/ closing \/ nlogins = MaxLogins)

\* C23 witness: the renewal login has failed after the token's expiry has
\* passed, with the client open, and the loop sleeps the interval again.
C23_Witness ==
    /\ ~closing /\ ~ctxDone[RouP]
    /\ pc[RouP] = "sleep" /\ sleepLeft[RouP] = timeBetween
    /\ token = 1 /\ tokenExpires = 0 /\ ~malformed

\* C24: a call that waits on the handoff while the routine is inside
\* loginUntilSuccess leaves that wait only with an error, and only with the
\* closed error of a closing client or with the error of its own done
\* context; it is not served before the renewal is over. A call made while
\* the routine was renewing never returns the old token, and no call returns
\* an error for any other cause. With a transport that recovers, such a call
\* returns the new token unless the client closes or its context is done.
C24_PendingCallsSurviveOutage ==
    /\ [][\A c \in Callers :
            (cpc[c] = "p1" /\ pc[RouP] \in LusPcs /\ cpc'[c] # "p1") =>
                /\ cpc'[c] = "done"
                /\ \/ cerr'[c] = "ErrClosed" /\ closing'
                   \/ cerr'[c] = "ctxErr" /\ cctx'[c]]_vars
    /\ [](\A c \in Callers :
            /\ GotError(c) => (closing \/ cctx[c])
            /\ (GotToken(c) /\ cphase[c] = "renewing") => ctok[c] >= 2)
    /\ \A c \in Callers :
          (cpc[c] = "p1" /\ pc[RouP] \in LusPcs)
             ~> (GotToken(c) \/ closing \/ cctx[c] \/ Exhausted)

\* C24 witness: a call was made while the renewal login kept failing past
\* the old token's expiry, and it has returned the second login's token.
C24_Witness ==
    \E c \in Callers :
        /\ GotToken(c) /\ cphase[c] = "renewing"
        /\ cseen[c] = {1, 2} /\ ctok[c] = 2
        /\ ~closing /\ ~cctx[c]

\* C25: the routine is started at most once, and only after NewClient's own
\* login loop is over, so at most one of the two is ever inside
\* loginUntilSuccess. The routine holds a received slot exactly while it is
\* replying, never while it renews or shuts down.
C25_OneTaskOneLogin ==
    /\ nstarted <= 1
    /\ pc[RouP] # "none" => (nstarted = 1 /\ pc[NewP] = "returned")
    /\ Cardinality({p \in Procs : pc[p] \in LusPcs}) <= 1
    /\ (rslot # 0) <=> (pc[RouP] = "reply")

\* C25 witness: the task's renewal login is in flight while a call waits for
\* the handoff; NewClient has long returned.
C25_Witness ==
    /\ pc[RouP] = "inflight" /\ pc[NewP] = "returned" /\ nstarted = 1
    /\ rslot = 0
    /\ \E c \in Callers : cpc[c] = "p1"

\* The three outcomes of a returned token() call, each with its cause.
ReturnedClosed(c) == cerr[c] = "ErrClosed" /\ ctok[c] = 0 /\ closing
ReturnedCtxErr(c) == cerr[c] = "ctxErr" /\ ctok[c] = 0 /\ cctx[c]
ReturnedToken(c) ==
    /\ cerr[c] = "none"
    /\ cacc[c] # 0 /\ ctok[c] = cacc[c]
    /\ rslot # c /\ tokenChan[c] = << >>

\* C26: a call that has returned has exactly one of three outcomes: the
\* closed error, and then the closing channel is closed; the context's
\* error, and then its context is done; or a token, and then the routine
\* had accepted its slot and has written that token into it (the write is
\* over and the slot is read). An error comes with no token. In the step
\* in which a call returns a token, the token comes out of the routine's
\* write: it is taken from the slot or handed over by the replying routine.
C26_TokenOutcomeSound ==
    /\ [](\A c \in Callers : cpc[c] = "done" =>
            /\ ReturnedClosed(c) \/ ReturnedCtxErr(c) \/ ReturnedToken(c)
            /\ ~(ReturnedClosed(c) /\ ReturnedCtxErr(c))
            /\ ~(ReturnedClosed(c) /\ ReturnedToken(c))
            /\ ~(ReturnedCtxErr(c) /\ ReturnedToken(c)))
    /\ [][\A c \in Callers : (Returns(c) /\ cerr'[c] = "none") =>
            \/ tokenChan[c] # << >> /\ ctok'[c] = Head(tokenChan[c])
            \/ rslot = c /\ pc[RouP] = "reply" /\ ctok'[c] = cacc[c]]_vars

\* C26 witness: one call has returned a token and the other its context's
\* error although the client is closing too (both causes held, the select
\* took one).
C26_Witness ==
    \E c, d \in Callers :
        /\ cpc[c] = "done" /\ ReturnedToken(c)
        /\ cpc[d] = "done" /\ ReturnedCtxErr(d) /\ closing

\* C27: the routine's token only moves forward, from one login to a later
\* one, until the ending routine clears it. When a call is invoked, every
\* token that a call has returned by then is at most the routine's token of
\* that moment; the values the routine's token takes during the call are
\* later ones still (or the cleared one), and the call returns one of the
\* values of a login it saw. So a call invoked after another has returned
\* never returns the token of an earlier login than that one did.
C27_TokensNeverGoBack ==
    /\ [][token' >= token \/ (token' = 0 /\ pc'[RouP] \in {"exit", "dead"})]_vars
    /\ [][\A a, b \in Callers :
            (GotToken(a) /\ cpc[b] = "idle" /\ cpc'[b] \in {"p1", "s2", "p2"}) =>
                (cseen'[b] = {token} /\ token >= ctok[a])]_vars
    /\ [][\A b \in Callers : \A t \in cseen'[b] \ cseen[b] :
            cpc[b] # "idle" => (t = 0 \/ \A u \in cseen[b] : u < t)]_vars
    /\ [](\A b \in Callers : GotToken(b) => (ctok[b] >= 1 /\ ctok[b] \in cseen[b]))
    /\ [](\A a, b \in Callers :
            (GotToken(a) /\ GotToken(b) /\ \A u \in cseen[b] : u >= ctok[a]) =>
                ctok[b] >= ctok[a])

\* C27 witness: one call returned the second login's token, a call invoked
\* after the renewal returned it too, with the timer fired once more.
C27_Witness ==
    \E a, b \in Callers :
        /\ a < b
        /\ GotToken(a) /\ ctok[a] = 2
        /\ GotToken(b) /\ cseen[b] = {2} /\ ctok[b] = 2
        /\ RenewalInFlight

\* C28: whenever the routine is dead the closing channel is closed, the
\* routine's context is done and no call is parked in a select of token():
\* every call that waited has been woken by the closing.
C28_DeadTaskMeansClosed ==
    pc[RouP] = "dead" =>
        /\ closing
        /\ ctxDone[RouP]
        /\ rslot = 0
        /\ \A c \in Callers : cpc[c] \notin {"p1", "p2"}

\* C28 witness: the routine has ended; a call that waited for the handoff
\* has returned the closed error, another was served before.
C28_Witness ==
    /\ pc[RouP] = "dead" /\ closing
    /\ nlogins = 1 /\ mxUserID = 1
    /\ \E c \in Callers : GotError(c) /\ cerr[c] = "ErrClosed" /\ cacc[c] = 0
    /\ \E c \in Callers : GotToken(c)

\* C29: the cached user id is the id of the routine's login or of a later
\* one, so after a call has returned the token of a login, GetCurrentUserID
\* gives the id of that login or of a later one (ids and tokens are numbered
\* by login). The id only moves forward. A loginUntilSuccess that ends with
\* an error, and every failed attempt, leaves the id as it was.
C29_UserIDNotOlderThanToken ==
    /\ [](GetCurrentUserID >= token)
    /\ [](\A c \in Callers : GotToken(c) => GetCurrentUserID >= ctok[c])
    /\ [](\A c \in Callers : \A i \in 1..Len(tokenChan[c]) :
             GetCurrentUserID >= tokenChan[c][i])
    /\ [][mxUserID' >= mxUserID]_vars
    /\ [][\A p \in Procs :
            (pc[p] \in LusPcs /\ pc'[p] \in {"sleep", "call", "ret_err", "exit"}) =>
                mxUserID' = mxUserID]_vars

\* C29 witness: a call has returned the second login's token and the cached
\* id is the second login's; the other call returned the first token.
C29_Witness ==
    /\ GetCurrentUserID = 2
    /\ \E c, d \in Callers :
          /\ GotToken(c) /\ ctok[c] = 2
          /\ GotToken(d) /\ ctok[d] = 1

\* A direct Login or Register call returns in this step.
DirectCall == api' # api /\ api'.op \in LoginOps

\* C30: a direct call of Login or Register, whatever the server answers and
\* whatever the routine is doing, leaves the routine's token and expiry, the
\* cached user id and the renewal timer as they are, and moves neither the
\* routine nor a login loop.
C30_DirectLoginLeavesSession ==
    /\ [][DirectCall => UNCHANGED <<token, tokenExpires, expOf, mxUserID, expires,
                                    timerOf, pc, resp, nlogins, sleepLeft, closing,
                                    ctxDone>>]_vars
    /\ [][DirectCall => GetCurrentUserID' = GetCurrentUserID]_vars
    /\ [](api.op \in LoginOps => (newResult = "client" /\ ~api.auth))

\* C30 witness: a direct Login has succeeded while the routine's renewal
\* login is in flight; the session is still the first login's.
C30_Witness ==
    /\ api.op = "Login" /\ api.err = NilErr
    /\ pc[RouP] = "inflight" /\ ~closing
    /\ token = 1 /\ GetCurrentUserID = 1 /\ expOf = 1 /\ timerOf = 1

====
